---- MODULE Spec2Model ----
(***************************************************************************)
(* Toll-accounting ledger of src/nod.cc: the line dispatcher handle_all,   *)
(* the parsers, the ledger operation add_entry and the query handler       *)
(* handle_command.  Strings are sequences of one-character strings.        *)
(***************************************************************************)
EXTENDS Integers, Sequences, FiniteSets, TLC

\* ------------------------------------------------------------------------
\* Characters
\* ------------------------------------------------------------------------
DigitChars == <<"0", "1", "2", "3", "4", "5", "6", "7", "8", "9">>

UpperChars == <<"A", "B", "C", "D", "E", "F", "G", "H", "I", "J", "K", "L", "M",
                "N", "O", "P", "Q", "R", "S", "T", "U", "V", "W", "X", "Y", "Z">>

LowerChars == <<"a", "b", "c", "d", "e", "f", "g", "h", "i", "j", "k", "l", "m",
                "n", "o", "p", "q", "r", "s", "t", "u", "v", "w", "x", "y", "z">>

Range(f) == {f[i] : i \in DOMAIN f}

IndexOf(c, chars) == CHOOSE i \in DOMAIN chars : chars[i] = c

\* \d of the regular expressions
IsDigit(c) == c \in Range(DigitChars)

\* [a-zA-Z0-9] of the plate pattern
IsAlnum(c) == c \in Range(DigitChars) \cup Range(UpperChars) \cup Range(LowerChars)

\* \s of the command pattern, the separators skipped by operator>>
IsSpace(c) == c \in {" ", "\t", "\r", "\f"}

\* value of a digit character: c - '0'
DigitVal(c) == IndexOf(c, DigitChars) - 1

\* character code of an alphanumeric character, the order std::string and
\* char compare by
CharCode(c) ==
    IF c \in Range(DigitChars) THEN 47 + IndexOf(c, DigitChars)
    ELSE IF c \in Range(UpperChars) THEN 64 + IndexOf(c, UpperChars)
    ELSE 96 + IndexOf(c, LowerChars)

\* ------------------------------------------------------------------------
\* int: 32 bits, two's complement.  TLC's own integers are 32 bits wide, so
\* the wrapped results are computed without an intermediate value leaving
\* the range.
\* ------------------------------------------------------------------------
INT_MAX == 2147483647

INT_MIN == (-INT_MAX) - 1

AddOverflows(a, b) ==
    \/ b > 0 /\ a > INT_MAX - b
    \/ b < 0 /\ a < INT_MIN - b

\* a + b on int, wrapped on overflow
WrapAdd(a, b) ==
    IF b > 0 /\ a > INT_MAX - b THEN ((a - INT_MAX) - 1) + ((b - INT_MAX) - 1)
    ELSE IF b < 0 /\ a < INT_MIN - b THEN ((a + INT_MAX) + 1) + ((b + INT_MAX) + 1)
    ELSE a + b

SubOverflows(a, b) ==
    \/ b < 0 /\ a > INT_MAX + b
    \/ b > 0 /\ a < INT_MIN + b

\* a - b on int, wrapped on overflow
WrapSub(a, b) ==
    IF b < 0 /\ a > INT_MAX + b THEN ((a - INT_MAX) - 1) - ((b + INT_MAX) + 1)
    ELSE IF b > 0 /\ a < INT_MIN + b THEN ((a + INT_MAX) + 1) - ((b - INT_MAX) - 1)
    ELSE a - b

\* std::abs on int; the negation of INT_MIN wraps to INT_MIN
Abs32(x) == IF x = INT_MIN THEN INT_MIN ELSE IF x < 0 THEN -x ELSE x

\* n * 10 + decimal on int, for n >= 0
Times10Plus(n, decimal) ==
    LET x2 == WrapAdd(n, n)
        x4 == WrapAdd(x2, x2)
        x8 == WrapAdd(x4, x4)
    IN  WrapAdd(WrapAdd(x8, x2), decimal)

Times10PlusOverflows(n, decimal) ==
    \/ n > INT_MAX \div 10
    \/ n = INT_MAX \div 10 /\ decimal > INT_MAX % 10

\* integer division and remainder of C++ (truncating toward zero), b > 0
CDiv(a, b) == IF a >= 0 THEN a \div b ELSE -((-(a + 1)) \div b) - (IF (-(a + 1)) % b = b - 1 THEN 1 ELSE 0)

CMod(a, b) == a - CDiv(a, b) * b

\* ------------------------------------------------------------------------
\* namespace road / namespace vehicle: the token parsers.  An optional is a
\* sequence of length 0 (nullopt) or 1.
\* ------------------------------------------------------------------------
nullopt == <<>>

Some(x) == <<x>>

AllDigits(s) == \A i \in DOMAIN s : IsDigit(s[i])

\* std::stoul of a digit string of at most three digits
RECURSIVE stoul(_)
stoul(s) ==
    IF s = <<>> THEN 0
    ELSE stoul(SubSeq(s, 1, Len(s) - 1)) * 10 + DigitVal(s[Len(s)])

\* std::stoi of a digit string: the value, or -1 for std::out_of_range
RECURSIVE stoi(_)
stoi(s) ==
    IF s = <<>> THEN 0
    ELSE LET head == stoi(SubSeq(s, 1, Len(s) - 1))
             d == DigitVal(s[Len(s)])
         IN  IF head < 0 \/ head > (INT_MAX - d) \div 10 THEN -1
             ELSE head * 10 + d

\* a road_t is <<number, type>>, the tuple order of the source
parse_road(road_str) ==
    IF /\ Len(road_str) \in 2..4
       /\ road_str[1] \in {"A", "S"}
       /\ IsDigit(road_str[2]) /\ road_str[2] # "0"
       /\ AllDigits(SubSeq(road_str, 2, Len(road_str)))
    THEN Some(<<stoul(SubSeq(road_str, 2, Len(road_str))), road_str[1]>>)
    ELSE nullopt

\* does the marker match ^(0|[1-9]\d*),(\d)$
MatchesDistance(distance_str) ==
    /\ Len(distance_str) >= 3
    /\ distance_str[Len(distance_str) - 1] = ","
    /\ IsDigit(distance_str[Len(distance_str)])
    /\ LET junction == SubSeq(distance_str, 1, Len(distance_str) - 2)
       IN  /\ AllDigits(junction)
           /\ junction = <<"0">> \/ junction[1] # "0"

parse_distance(distance_str) ==
    IF MatchesDistance(distance_str)
    THEN LET junction == stoi(SubSeq(distance_str, 1, Len(distance_str) - 2))
             decimal == DigitVal(distance_str[Len(distance_str)])
         IN  IF junction < 0 THEN nullopt
             ELSE Some(Times10Plus(junction, decimal))
    ELSE nullopt

\* the multiplication or the addition of parse_distance leaves the int range
parse_distance_overflows(distance_str) ==
    /\ MatchesDistance(distance_str)
    /\ LET junction == stoi(SubSeq(distance_str, 1, Len(distance_str) - 2))
           decimal == DigitVal(distance_str[Len(distance_str)])
       IN  junction >= 0 /\ Times10PlusOverflows(junction, decimal)

\* Variant of parse_vehicle with the pattern [a-zA-Z0-9]{4,11}.
parse_vehicle_min4(plate_no_str) ==
    IF Len(plate_no_str) \in 4..11 /\ \A i \in DOMAIN plate_no_str : IsAlnum(plate_no_str[i])
    THEN Some(plate_no_str)
    ELSE nullopt

\* a vehicle_t is its plate string
parse_vehicle(plate_no_str) ==
    IF Len(plate_no_str) \in 3..11 /\ \A i \in DOMAIN plate_no_str : IsAlnum(plate_no_str[i])
    THEN Some(plate_no_str)
    ELSE nullopt

\* ------------------------------------------------------------------------
\* namespace input: the line parsers
\* ------------------------------------------------------------------------

\* first position >= i of str that holds no white space (Len(str) + 1 if none)
RECURSIVE SkipSpace(_, _)
SkipSpace(str, i) ==
    IF i <= Len(str) /\ IsSpace(str[i]) THEN SkipSpace(str, i + 1) ELSE i

\* first position >= i of str that holds white space (Len(str) + 1 if none)
RECURSIVE SkipWord(_, _)
SkipWord(str, i) ==
    IF i <= Len(str) /\ ~IsSpace(str[i]) THEN SkipWord(str, i + 1) ELSE i

\* a command_desc_t is <<optional road, optional vehicle>>
parse_command(text) ==
    LET q == SkipSpace(text, 1)
        a == SkipSpace(text, q + 1)
        e == SkipWord(text, a)
        arg == SubSeq(text, a, e - 1)
        road == parse_road(arg)
        vehicle == parse_vehicle(arg)
    IN  IF q <= Len(text) /\ text[q] = "?" /\ SkipSpace(text, e) > Len(text)
        THEN IF arg = <<>> THEN Some(<<nullopt, nullopt>>)
             ELSE IF road = nullopt /\ vehicle = nullopt THEN nullopt
             ELSE Some(<<road, vehicle>>)
        ELSE nullopt

\* the words of str from position i on
RECURSIVE SplitFrom(_, _)
SplitFrom(str, i) ==
    LET b == SkipSpace(str, i)
        e == SkipWord(str, b)
    IN  IF b > Len(str) THEN <<>>
        ELSE <<SubSeq(str, b, e - 1)>> \o SplitFrom(str, e)

split_args(str) == SplitFrom(str, 1)

\* an info_desc_t is <<vehicle, road, distance>>
parse_info(text) ==
    LET args == split_args(text)
    IN  IF Len(args) = 3
        THEN LET vehicle == parse_vehicle(args[1])
                 road == parse_road(args[2])
                 distance == parse_distance(args[3])
             IN  IF vehicle = nullopt \/ road = nullopt \/ distance = nullopt
                 THEN nullopt
                 ELSE Some(<<vehicle[1], road[1], distance[1]>>)
        ELSE nullopt

\* parse_info reaches an overflowing parse_distance
parse_info_overflows(text) ==
    LET args == split_args(text)
    IN  Len(args) = 3 /\ parse_distance_overflows(args[3])

\* ------------------------------------------------------------------------
\* std::map: a function whose domain is the set of keys
\* ------------------------------------------------------------------------
EmptyMap == <<>>

MapPut(m, k, v) == [x \in DOMAIN m \cup {k} |-> IF x = k THEN v ELSE m[x]]

MapErase(m, k) == [x \in DOMAIN m \ {k} |-> m[x]]

\* m[k] of a map of int: a missing key is inserted with value 0
MapAt(m, k) == IF k \in DOMAIN m THEN m[k] ELSE 0

\* m[k] of a map of maps: a missing key is inserted with an empty map
MapAtMap(m, k) == IF k \in DOMAIN m THEN m[k] ELSE EmptyMap

\* ------------------------------------------------------------------------
\* namespace toll_charging
\* ------------------------------------------------------------------------

\* a state_t; vehicles_data: vehicle -> (road type -> distance),
\* roads_data: road -> distance, not_finished: vehicle -> not_finished_entry_t
state_t(vd, rd, nf) == [vehicles_data |-> vd, roads_data |-> rd, not_finished |-> nf]

not_finished_entry_t(road, distance, line_desc) ==
    [road |-> road, distance |-> distance, line_desc |-> line_desc]

\* which branch add_entry takes
add_entry_branch(state, vehicle, road) ==
    IF vehicle \in DOMAIN state.not_finished
    THEN IF state.not_finished[vehicle].road = road THEN "closing" ELSE "conflicting"
    ELSE "opening"

\* Variant of add_entry_closing that updates roads_data only.
add_entry_closing_roads_only(state, vehicle, road, distance) ==
    LET start_distance == state.not_finished[vehicle].distance
        traveled_distance == Abs32(WrapSub(distance, start_distance))
    IN  state_t(state.vehicles_data,
                MapPut(state.roads_data, road,
                       WrapAdd(MapAt(state.roads_data, road), traveled_distance)),
                MapErase(state.not_finished, vehicle))

\* Variant of add_entry_closing that skips the two additions when the
\* traveled distance is 0.
add_entry_closing_skip_zero(state, vehicle, road, distance) ==
    LET start_distance == state.not_finished[vehicle].distance
        traveled_distance == Abs32(WrapSub(distance, start_distance))
        by_type == MapAtMap(state.vehicles_data, vehicle)
    IN  IF traveled_distance = 0
        THEN state_t(state.vehicles_data, state.roads_data,
                     MapErase(state.not_finished, vehicle))
        ELSE state_t(MapPut(state.vehicles_data, vehicle,
                            MapPut(by_type, road[2],
                                   WrapAdd(MapAt(by_type, road[2]), traveled_distance))),
                     MapPut(state.roads_data, road,
                            WrapAdd(MapAt(state.roads_data, road), traveled_distance)),
                     MapErase(state.not_finished, vehicle))

\* Variant of add_entry_closing with not_finished.clear() in place of
\* not_finished.erase(it).
add_entry_closing_clear(state, vehicle, road, distance) ==
    LET start_distance == state.not_finished[vehicle].distance
        traveled_distance == Abs32(WrapSub(distance, start_distance))
        by_type == MapAtMap(state.vehicles_data, vehicle)
    IN  state_t(MapPut(state.vehicles_data, vehicle,
                       MapPut(by_type, road[2], WrapAdd(MapAt(by_type, road[2]), traveled_distance))),
                MapPut(state.roads_data, road,
                       WrapAdd(MapAt(state.roads_data, road), traveled_distance)),
                EmptyMap)

\* Variant of add_entry_closing without not_finished.erase(it).
add_entry_closing_keep(state, vehicle, road, distance) ==
    LET start_distance == state.not_finished[vehicle].distance
        traveled_distance == Abs32(WrapSub(distance, start_distance))
        by_type == MapAtMap(state.vehicles_data, vehicle)
    IN  state_t(MapPut(state.vehicles_data, vehicle,
                       MapPut(by_type, road[2], WrapAdd(MapAt(by_type, road[2]), traveled_distance))),
                MapPut(state.roads_data, road,
                       WrapAdd(MapAt(state.roads_data, road), traveled_distance)),
                state.not_finished)

\* the closing branch: the totals grow by the traveled distance and the
\* vehicle's entry is erased
add_entry_closing(state, vehicle, road, distance) ==
    LET start_distance == state.not_finished[vehicle].distance
        traveled_distance == Abs32(WrapSub(distance, start_distance))
        by_type == MapAtMap(state.vehicles_data, vehicle)
    IN  state_t(MapPut(state.vehicles_data, vehicle,
                       MapPut(by_type, road[2], WrapAdd(MapAt(by_type, road[2]), traveled_distance))),
                MapPut(state.roads_data, road,
                       WrapAdd(MapAt(state.roads_data, road), traveled_distance)),
                MapErase(state.not_finished, vehicle))

\* Variant of add_entry_store that stores with emplace, which keeps the
\* entry of a vehicle that has one.
add_entry_store_emplace(state, vehicle, road, distance, line_desc) ==
    IF vehicle \in DOMAIN state.not_finished
    THEN state
    ELSE state_t(state.vehicles_data, state.roads_data,
                 MapPut(state.not_finished, vehicle,
                        not_finished_entry_t(road, distance, line_desc)))

\* Variant of add_entry_store that takes the reference roads_data[road]
\* first, which inserts the key.
add_entry_store_touch(state, vehicle, road, distance, line_desc) ==
    state_t(state.vehicles_data,
            MapPut(state.roads_data, road, MapAt(state.roads_data, road)),
            MapPut(state.not_finished, vehicle, not_finished_entry_t(road, distance, line_desc)))

\* not_finished[vehicle] = not_finished_entry_t(road, distance, line_desc)
add_entry_store(state, vehicle, road, distance, line_desc) ==
    state_t(state.vehicles_data, state.roads_data,
            MapPut(state.not_finished, vehicle, not_finished_entry_t(road, distance, line_desc)))

\* Variant of add_entry_error_line that returns the new line, not the
\* paired one.
add_entry_error_line_new(state, vehicle, road, line_desc) ==
    IF vehicle \in DOMAIN state.not_finished /\ state.not_finished[vehicle].road # road
    THEN Some(line_desc)
    ELSE nullopt

\* the optional error line add_entry returns
add_entry_error_line(state, vehicle, road, line_desc) ==
    IF vehicle \in DOMAIN state.not_finished /\ state.not_finished[vehicle].road # road
    THEN Some(state.not_finished[vehicle].line_desc)
    ELSE nullopt

\* the new state and the returned optional error line
add_entry(state, vehicle, road, distance, line_desc) ==
    IF vehicle \in DOMAIN state.not_finished /\ state.not_finished[vehicle].road = road
    THEN [state |-> add_entry_closing(state, vehicle, road, distance),
          error_line |-> nullopt]
    ELSE [state |-> add_entry_store(state, vehicle, road, distance, line_desc),
          error_line |-> add_entry_error_line(state, vehicle, road, line_desc)]

\* some int operation of add_entry leaves the int range
add_entry_overflows(state, vehicle, road, distance) ==
    /\ vehicle \in DOMAIN state.not_finished
    /\ state.not_finished[vehicle].road = road
    /\ LET start_distance == state.not_finished[vehicle].distance
           traveled_distance == Abs32(WrapSub(distance, start_distance))
       IN  \/ SubOverflows(distance, start_distance)
           \/ WrapSub(distance, start_distance) = INT_MIN
           \/ AddOverflows(MapAt(state.roads_data, road), traveled_distance)
           \/ AddOverflows(MapAt(MapAtMap(state.vehicles_data, vehicle), road[2]),
                           traveled_distance)

\* ------------------------------------------------------------------------
\* The iteration order of the maps: std::less on the key tuples
\* ------------------------------------------------------------------------

\* std::string operator< on alphanumeric strings
RECURSIVE StringLess(_, _)
StringLess(a, b) ==
    IF b = <<>> THEN FALSE
    ELSE IF a = <<>> THEN TRUE
    ELSE IF a[1] # b[1] THEN CharCode(a[1]) < CharCode(b[1])
    ELSE StringLess(Tail(a), Tail(b))

\* Variant of RoadLess that compares the type before the number.
RoadLess_type_first(a, b) ==
    CharCode(a[2]) < CharCode(b[2]) \/ (a[2] = b[2] /\ a[1] < b[1])

\* operator< of road_t = std::tuple<road_num_t, road_type_t>
RoadLess(a, b) == a[1] < b[1] \/ (a[1] = b[1] /\ CharCode(a[2]) < CharCode(b[2]))

\* operator< of road_type_t = char
TypeLess(a, b) == CharCode(a) < CharCode(b)

\* the keys of a map in iteration order
RECURSIVE VehicleKeys(_)
VehicleKeys(keys) ==
    IF keys = {} THEN <<>>
    ELSE LET first == CHOOSE k \in keys : \A o \in keys \ {k} : StringLess(k, o)
         IN  <<first>> \o VehicleKeys(keys \ {first})

RECURSIVE RoadKeys(_)
RoadKeys(keys) ==
    IF keys = {} THEN <<>>
    ELSE LET first == CHOOSE k \in keys : \A o \in keys \ {k} : RoadLess(k, o)
         IN  <<first>> \o RoadKeys(keys \ {first})

RECURSIVE TypeKeys(_)
TypeKeys(keys) ==
    IF keys = {} THEN <<>>
    ELSE LET first == CHOOSE k \in keys : \A o \in keys \ {k} : TypeLess(k, o)
         IN  <<first>> \o TypeKeys(keys \ {first})

\* ------------------------------------------------------------------------
\* Output.  A line written to std::cout is <<"vehicle", plate, totals>> with
\* totals a sequence of <<type, printable distance>>, or
\* <<"road", road, printable distance>>.
\* ------------------------------------------------------------------------

\* operator<< of printable_distance_t: the two numbers around the comma
printable_distance_t(distance) == <<CDiv(distance, 10), CMod(distance, 10)>>

\* operator<< of road_type_data_t
print_road_type_data(entries) ==
    LET keys == TypeKeys(DOMAIN entries)
    IN  [i \in DOMAIN keys |-> <<keys[i], printable_distance_t(entries[keys[i]])>>]

print_vehicle_entry(vehicle, entries) == <<"vehicle", vehicle, print_road_type_data(entries)>>

print_road_entry(road, distance) == <<"road", road, printable_distance_t(distance)>>

\* Variant of handle_command_output that looks the road up only when the
\* vehicle lookup wrote nothing ("else if").
handle_command_output_else_if(state, cmd) ==
    LET vkeys == VehicleKeys(DOMAIN state.vehicles_data)
        rkeys == RoadKeys(DOMAIN state.roads_data)
        all == IF cmd[1] = nullopt /\ cmd[2] = nullopt
               THEN [i \in DOMAIN vkeys |-> print_vehicle_entry(vkeys[i], state.vehicles_data[vkeys[i]])]
                    \o [i \in DOMAIN rkeys |-> print_road_entry(rkeys[i], state.roads_data[rkeys[i]])]
               ELSE <<>>
        by_vehicle == IF cmd[2] # nullopt /\ cmd[2][1] \in DOMAIN state.vehicles_data
                      THEN <<print_vehicle_entry(cmd[2][1], state.vehicles_data[cmd[2][1]])>>
                      ELSE <<>>
        by_road == IF by_vehicle = <<>> /\ cmd[1] # nullopt /\ cmd[1][1] \in DOMAIN state.roads_data
                   THEN <<print_road_entry(cmd[1][1], state.roads_data[cmd[1][1]])>>
                   ELSE <<>>
    IN  all \o by_vehicle \o by_road

\* what handle_command writes to std::cout for a parsed command
handle_command_output(state, cmd) ==
    LET cmd_road == cmd[1]
        cmd_vehicle == cmd[2]
        vkeys == VehicleKeys(DOMAIN state.vehicles_data)
        rkeys == RoadKeys(DOMAIN state.roads_data)
        all == IF cmd_road = nullopt /\ cmd_vehicle = nullopt
               THEN [i \in DOMAIN vkeys |-> print_vehicle_entry(vkeys[i], state.vehicles_data[vkeys[i]])]
                    \o [i \in DOMAIN rkeys |-> print_road_entry(rkeys[i], state.roads_data[rkeys[i]])]
               ELSE <<>>
        by_vehicle == IF cmd_vehicle # nullopt /\ cmd_vehicle[1] \in DOMAIN state.vehicles_data
                      THEN <<print_vehicle_entry(cmd_vehicle[1], state.vehicles_data[cmd_vehicle[1]])>>
                      ELSE <<>>
        by_road == IF cmd_road # nullopt /\ cmd_road[1] \in DOMAIN state.roads_data
                   THEN <<print_road_entry(cmd_road[1], state.roads_data[cmd_road[1]])>>
                   ELSE <<>>
    IN  all \o by_vehicle \o by_road

\* Variant of handle_command_state that looks up with operator[], which
\* inserts a missing key.
handle_command_state_insert(state, cmd) ==
    state_t(IF cmd[2] # nullopt
            THEN MapPut(state.vehicles_data, cmd[2][1], MapAtMap(state.vehicles_data, cmd[2][1]))
            ELSE state.vehicles_data,
            IF cmd[1] # nullopt
            THEN MapPut(state.roads_data, cmd[1][1], MapAt(state.roads_data, cmd[1][1]))
            ELSE state.roads_data,
            state.not_finished)

\* the state handle_command leaves: the lookups are find() on const
\* references, which insert no key
handle_command_state(state, cmd) == state

\* ------------------------------------------------------------------------
\* The input: the lines std::getline can deliver
\* ------------------------------------------------------------------------
MaxLines == 5

SP == <<" ">>

Plate_A12 == <<"A", "1", "2">>

Plate_9zz == <<"9", "z", "z">>

\* two characters: not a plate
Plate_9z == <<"9", "z">>

Road_A3 == <<"A", "3">>

Road_S3 == <<"S", "3">>

Road_A12 == <<"A", "1", "2">>

Marker_0 == <<"0", ",", "0">>

Marker_1_5 == <<"1", ",", "5">>

\* 214748364,7 is INT_MAX tenths; 214748365,0 is past the int range
Marker_Max == <<"2", "1", "4", "7", "4", "8", "3", "6", "4", ",", "7">>

Marker_Over == <<"2", "1", "4", "7", "4", "8", "3", "6", "5", ",", "0">>

Record(plate, road, marker) == plate \o SP \o road \o SP \o marker

RecordLines ==
    { Record(Plate_A12, Road_A12, Marker_0),
      Record(Plate_A12, Road_A12, Marker_1_5),
      Record(Plate_A12, Road_S3, Marker_1_5),
      Record(Plate_9zz, Road_A12, Marker_0),
      Record(Plate_9zz, Road_A12, Marker_Max),
      Record(Plate_9zz, Road_A12, Marker_Over),
      Record(Plate_9z, Road_A3, Marker_Over) }

CommandLines ==
    { <<"?">>,
      <<" ", "?", "\t">> \o Road_A12 \o SP,
      <<"?">> \o Road_S3,
      <<"?">> \o Plate_9zz }

OtherLines ==
    { <<>>,
      <<"h", "e", "l", "l", "o", " ", "w", "o", "r", "l", "d">> }

Lines == RecordLines \cup CommandLines \cup OtherLines

\* The query lines "?arg": every arg of at most MaxTokenLen characters over
\* TokenChars, and some longer ones at the limits of the two patterns
MaxTokenLen == 3

MaxQueryLines == 1

TokenChars == {"A", "0", "1", "!"}

Ones(n) == [i \in 1..n |-> "1"]

LongTokens ==
    { <<"A", "1", "0", "0">>,
      <<"S", "9", "9", "9">>,
      <<"S", "0", "9", "9">>,
      <<"A", "1", "0", "0", "0">>,
      <<"a", "1", "0">>,
      <<"B", "1", "0">>,
      <<"A">> \o Ones(10),
      <<"A">> \o Ones(11) }

Tokens == UNION {[1..k -> TokenChars] : k \in 0..MaxTokenLen} \cup LongTokens

QueryLines == {<<"?">> \o arg : arg \in Tokens}

AllLines == Lines \cup QueryLines

\* auto cmd = input::parse_command(line), for each line of the input
cmd_of == [l \in AllLines |-> parse_command(l)]

\* auto info = input::parse_info(line), for each line of the input
info_of == [l \in AllLines |-> parse_info(l)]

\* does parse_distance overflow on the line, for each line of the input
overflows_of == [l \in AllLines |-> parse_info_overflows(l)]

\* ------------------------------------------------------------------------
\* input::handle_all
\* ------------------------------------------------------------------------
VARIABLES
    vehicles_data,   \* std::get<vehicles_data_t>(state)
    roads_data,      \* std::get<roads_data_t>(state)
    not_finished,    \* std::get<not_finished_data_t>(state)
    line_no,         \* number of the line read last
    line,            \* text of the line read last
    pc,              \* "reading", "done" after end of input, "aborted"
    out,             \* what the line read last wrote to std::cout
    err,             \* everything written to std::cerr, as line descriptions
    last_crossing,   \* history: the branch add_entry took last, per vehicle
    closed,          \* history: the segments add_entry has closed
    dumps            \* history: the outputs of the no-argument queries
                     \* answered since the last crossing record

vars == <<vehicles_data, roads_data, not_finished, line_no, line, pc, out, err,
          last_crossing, closed, dumps>>

\* the history variables
hist == <<last_crossing, closed, dumps>>

ledger == state_t(vehicles_data, roads_data, not_finished)

line_desc_t(no, text) == <<no, text>>

Init ==
    /\ vehicles_data = EmptyMap
    /\ roads_data = EmptyMap
    /\ not_finished = EmptyMap
    /\ line_no = 0
    /\ line = <<>>
    /\ pc = "reading"
    /\ out = <<>>
    /\ err = <<>>
    /\ last_crossing = EmptyMap
    /\ closed = {}
    /\ dumps = <<>>

\* a closed segment: its vehicle and road, and the numbers of the lines
\* that opened and closed it
segment_t(vehicle, road, first, last) ==
    [vehicle |-> vehicle, road |-> road, first |-> first, last |-> last]

\* std::getline delivers l: line_no++
GetLine(l) ==
    /\ pc = "reading"
    /\ line_no < MaxLines
    /\ line_no' = line_no + 1
    /\ line' = l

\* line.empty()
ReadBlank(l) ==
    /\ GetLine(l)
    /\ l = <<>>
    /\ out' = <<>>
    /\ UNCHANGED <<vehicles_data, roads_data, not_finished, pc, err, hist>>

\* handle_command returns true
ReadCommand(l) ==
    /\ GetLine(l)
    /\ l # <<>>
    /\ cmd_of[l] # nullopt
    /\ \E cmd \in {cmd_of[l][1]} :
       \E after \in {handle_command_state(ledger, cmd)} :
           /\ out' = handle_command_output(ledger, cmd)
           /\ vehicles_data' = after.vehicles_data
           /\ roads_data' = after.roads_data
           /\ not_finished' = after.not_finished
           /\ dumps' = IF cmd = <<nullopt, nullopt>> THEN Append(dumps, out') ELSE dumps
    /\ UNCHANGED <<pc, err, last_crossing, closed>>

\* handle_info returns true: add_entry, then print_error of its result
ReadInfo(l) ==
    /\ GetLine(l)
    /\ l # <<>>
    /\ cmd_of[l] = nullopt
    /\ info_of[l] # nullopt
    /\ \E info \in {info_of[l][1]} :
       \E result \in {add_entry(ledger, info[1], info[2], info[3], line_desc_t(line_no + 1, l))} :
           /\ vehicles_data' = result.state.vehicles_data
           /\ roads_data' = result.state.roads_data
           /\ not_finished' = result.state.not_finished
           /\ err' = err \o result.error_line
           /\ last_crossing' = MapPut(last_crossing, info[1],
                                      add_entry_branch(ledger, info[1], info[2]))
           /\ closed' = IF add_entry_branch(ledger, info[1], info[2]) = "closing"
                         THEN closed \cup {segment_t(info[1], info[2],
                                                      not_finished[info[1]].line_desc[1],
                                                      line_no + 1)}
                         ELSE closed
    /\ dumps' = <<>>
    /\ out' = <<>>
    /\ UNCHANGED pc

\* neither handler accepts the line: print_error(line_desc)
ReadMalformed(l) ==
    /\ GetLine(l)
    /\ l # <<>>
    /\ cmd_of[l] = nullopt
    /\ info_of[l] = nullopt
    /\ err' = Append(err, line_desc_t(line_no + 1, l))
    /\ out' = <<>>
    /\ UNCHANGED <<vehicles_data, roads_data, not_finished, pc, hist>>

\* the line makes a signed int operation overflow
LineOverflows(l) ==
    /\ l # <<>>
    /\ cmd_of[l] = nullopt
    /\ \/ overflows_of[l]
       \/ /\ info_of[l] # nullopt
          /\ LET info == info_of[l][1]
             IN  add_entry_overflows(ledger, info[1], info[2], info[3])

\* signed overflow is undefined: besides wrapping around (ReadInfo), the
\* build may trap and end the process
Trap(l) ==
    /\ GetLine(l)
    /\ LineOverflows(l)
    /\ pc' = "aborted"
    /\ out' = <<>>
    /\ UNCHANGED <<vehicles_data, roads_data, not_finished, err, hist>>

\* Variant of EndOfInput that reports the unmatched entries.
EndOfInput_flush ==
    /\ pc = "reading"
    /\ pc' = "done"
    /\ LET keys == VehicleKeys(DOMAIN not_finished)
       IN  err' = err \o [i \in DOMAIN keys |-> not_finished[keys[i]].line_desc]
    /\ UNCHANGED <<vehicles_data, roads_data, not_finished, line_no, line, out>>
    /\ UNCHANGED hist

\* std::getline fails: the loop and the process end
EndOfInput ==
    /\ pc = "reading"
    /\ pc' = "done"
    /\ UNCHANGED <<vehicles_data, roads_data, not_finished, line_no, line, out, err, hist>>

Next ==
    \/ \E l \in Lines : ReadBlank(l)
    \/ \E l \in Lines : ReadCommand(l)
    \/ \E l \in Lines : ReadInfo(l)
    \/ \E l \in Lines : ReadMalformed(l)
    \/ \E l \in Lines : Trap(l)
    \/ EndOfInput

Spec == Init /\ [][Next]_vars

\* handle_all on an input of query lines only
QueryNext ==
    \/ \E l \in QueryLines : line_no < MaxQueryLines /\ ReadCommand(l)
    \/ \E l \in QueryLines : line_no < MaxQueryLines /\ ReadMalformed(l)
    \/ EndOfInput

QuerySpec == Init /\ [][QueryNext]_vars

\* ------------------------------------------------------------------------
\* Vocabulary of the properties
\* ------------------------------------------------------------------------

\* the step reads a crossing record and calls add_entry (RecordCrossing)
CrossingStep ==
    /\ line_no' = line_no + 1
    /\ pc' = "reading"
    /\ line' # <<>>
    /\ cmd_of[line'] = nullopt
    /\ info_of[line'] # nullopt

\* the arguments of that call
CallVehicle == info_of[line'][1][1]

CallRoad == info_of[line'][1][2]

CallDistance == info_of[line'][1][3]

CallLine == line_desc_t(line_no', line')

\* the step reads a command line
CommandStep ==
    /\ line_no' = line_no + 1
    /\ line' # <<>>
    /\ cmd_of[line'] # nullopt

TotalsUnchanged == vehicles_data' = vehicles_data /\ roads_data' = roads_data

\* c is the integer a + b, t is the integer |d - p|
ExactSum(c, a, b) == ~AddOverflows(a, b) /\ c = a + b

ExactAbsDiff(t, d, p) ==
    IF d >= p THEN ~SubOverflows(d, p) /\ t = d - p
    ELSE ~SubOverflows(p, d) /\ t = p - d

\* the step adds exactly |d - p| to RoadTotals[r] and RoadTypeTotals[v][r.type]
AddsExactly(v, r, d, p) ==
    /\ r \in DOMAIN roads_data'
    /\ v \in DOMAIN vehicles_data'
    /\ r[2] \in DOMAIN vehicles_data'[v]
    /\ \E t \in {Abs32(WrapSub(d, p))} :
          /\ ExactAbsDiff(t, d, p)
          /\ ExactSum(roads_data'[r], MapAt(roads_data, r), t)
          /\ ExactSum(vehicles_data'[v][r[2]], MapAt(MapAtMap(vehicles_data, v), r[2]), t)

\* ------------------------------------------------------------------------
\* Properties
\* ------------------------------------------------------------------------

\* C1: whenever vehicle v has a pending entry on road r with distance p, a
\* call RecordCrossing(v, r, d, line) adds exactly abs(d - p) to
\* RoadTotals[r] and to RoadTypeTotals[v][r.type], removes v's pending entry
\* and returns no error line.  Stated for the distances a marker denotes,
\* d >= 0 and p >= 0.
C1_ClosingAddsExactly ==
    [][ (CrossingStep /\ CallVehicle \in DOMAIN not_finished
                      /\ not_finished[CallVehicle].road = CallRoad
                      /\ CallDistance >= 0
                      /\ not_finished[CallVehicle].distance >= 0)
        => /\ AddsExactly(CallVehicle, CallRoad, CallDistance, not_finished[CallVehicle].distance)
           /\ not_finished' = MapErase(not_finished, CallVehicle)
           /\ err' = err ]_vars

\* C2: whenever vehicle v has a pending entry on road r1 and
\* RecordCrossing(v, r2, d2, line2) is called with r2 # r1, the call returns
\* the line reference stored in the previous pending entry (the line of the
\* earlier record of v on r1), v's pending entry becomes exactly
\* {r2, d2, line2}, and neither totals table changes.
C2_ConflictingCrossing ==
    [][ (CrossingStep /\ CallVehicle \in DOMAIN not_finished
                      /\ not_finished[CallVehicle].road # CallRoad)
        => /\ err' = Append(err, not_finished[CallVehicle].line_desc)
           /\ info_of[err'[Len(err')][2]] # nullopt
           /\ info_of[err'[Len(err')][2]][1][1] = CallVehicle
           /\ info_of[err'[Len(err')][2]][1][2] = not_finished[CallVehicle].road
           /\ err'[Len(err')][1] < line_no'
           /\ not_finished' = MapPut(not_finished, CallVehicle,
                                     not_finished_entry_t(CallRoad, CallDistance, CallLine))
           /\ TotalsUnchanged ]_vars

\* a conflicting crossing has been recorded and its earlier line reported
C2_Witness ==
    /\ err # <<>>
    /\ \E v \in DOMAIN not_finished :
          /\ v \in DOMAIN last_crossing /\ last_crossing[v] = "conflicting"
          /\ not_finished[v].line_desc[1] = line_no
          /\ info_of[err[Len(err)][2]] # nullopt
          /\ info_of[err[Len(err)][2]][1][1] = v

\* C3: whenever vehicle v has no pending entry, RecordCrossing(v, r, d, line)
\* stores {r, d, line} as v's pending entry, returns no error line and
\* leaves both totals tables unchanged.
C3_OpeningCrossing ==
    [][ (CrossingStep /\ CallVehicle \notin DOMAIN not_finished)
        => /\ not_finished' = MapPut(not_finished, CallVehicle,
                                     not_finished_entry_t(CallRoad, CallDistance, CallLine))
           /\ err' = err
           /\ TotalsUnchanged ]_vars

\* an opening crossing has just been recorded
C3_Witness ==
    \E v \in DOMAIN not_finished :
        /\ last_crossing[v] = "opening"
        /\ not_finished[v].line_desc = line_desc_t(line_no, line)

\* the step is a call of add_entry that closes a segment
ClosingStep ==
    /\ CrossingStep
    /\ CallVehicle \in DOMAIN not_finished
    /\ not_finished[CallVehicle].road = CallRoad

\* C4: recording (v, r, d1) immediately followed by (v, r, d2) increases
\* RoadTotals[r] and RoadTypeTotals[v][r.type] by exactly abs(d2 - d1) and
\* leaves no pending entry for v.  Stated for the case in which the first
\* record is stored as v's pending entry (v is not pending on r before it),
\* so that the totals before the pair are those between its two records,
\* and for the distances a marker denotes, d1 >= 0 and d2 >= 0.
C4_PairAddsExactly ==
    [][ (ClosingStep /\ not_finished[CallVehicle].line_desc[1] = line_no
                     /\ CallDistance >= 0
                     /\ not_finished[CallVehicle].distance >= 0)
        => /\ AddsExactly(CallVehicle, CallRoad, CallDistance, not_finished[CallVehicle].distance)
           /\ CallVehicle \notin DOMAIN not_finished' ]_vars

\* C5: no entry of RoadTotals or RoadTypeTotals ever decreases or disappears
\* from one state to the next, and the tables change only in a step that
\* closes a matched segment.
C5_TotalsOnlyGrow ==
    [][ /\ \A r \in DOMAIN roads_data :
              r \in DOMAIN roads_data' /\ roads_data'[r] >= roads_data[r]
        /\ \A v \in DOMAIN vehicles_data :
              /\ v \in DOMAIN vehicles_data'
              /\ \A t \in DOMAIN vehicles_data[v] :
                    /\ t \in DOMAIN vehicles_data'[v]
                    /\ vehicles_data'[v][t] >= vehicles_data[v][t]
        /\ ~TotalsUnchanged => ClosingStep ]_vars

ZeroLengthOnExisting ==
    /\ CallDistance = not_finished[CallVehicle].distance
    /\ CallRoad \in DOMAIN roads_data
    /\ CallVehicle \in DOMAIN vehicles_data
    /\ CallRoad[2] \in DOMAIN vehicles_data[CallVehicle]

C7_PendingIffUnmatched ==
    /\ \A v \in DOMAIN not_finished \cup DOMAIN last_crossing :
          (v \in DOMAIN not_finished)
              <=> (v \in DOMAIN last_crossing /\ last_crossing[v] \in {"opening", "conflicting"})
    /\ \A v \in DOMAIN not_finished :
          /\ info_of[not_finished[v].line_desc[2]] # nullopt
          /\ info_of[not_finished[v].line_desc[2]][1]
                = <<v, not_finished[v].road, not_finished[v].distance>>
    /\ \A v, w \in DOMAIN not_finished :
          v # w => not_finished[v].line_desc[1] # not_finished[w].line_desc[1]

\* one vehicle is pending after a conflicting crossing, another has closed
C7_Witness ==
    \E v, w \in DOMAIN last_crossing :
        /\ last_crossing[v] = "conflicting" /\ v \in DOMAIN not_finished
        /\ last_crossing[w] = "closing" /\ w \notin DOMAIN not_finished

\* C8: a command line (a query of any kind, also for a road or vehicle that
\* is absent from the totals) leaves RoadTypeTotals, RoadTotals and
\* PendingEntries as they were; a lookup creates no key.
C8_QueriesReadOnly ==
    [][ CommandStep => /\ vehicles_data' = vehicles_data
                       /\ roads_data' = roads_data
                       /\ not_finished' = not_finished ]_vars

\* a query for a road and vehicle absent from the totals has been answered
C8_Witness ==
    /\ line_no >= 2
    /\ cmd_of[line] # nullopt
    /\ cmd_of[line][1][1] # nullopt
    /\ cmd_of[line][1][1][1] \notin DOMAIN roads_data
    /\ cmd_of[line][1][2] # nullopt
    /\ cmd_of[line][1][2][1] \notin DOMAIN vehicles_data
    /\ cmd_of[line][1][2][1] \in DOMAIN not_finished
    /\ out = <<>>

\* plate a sorts before plate b: byte-wise lexicographic order
PlateBefore(a, b) ==
    \E i \in 1..Len(b) :
        /\ \A k \in 1..(i - 1) : k <= Len(a) /\ a[k] = b[k]
        /\ i > Len(a) \/ CharCode(a[i]) < CharCode(b[i])

\* road a sorts before road b: by number, then type A before S
RoadBefore(a, b) == a[1] < b[1] \/ (a[1] = b[1] /\ a[2] = "A" /\ b[2] = "S")

\* the line read last is a query without argument
AfterQueryAll == line_no >= 1 /\ line # <<>> /\ cmd_of[line] = Some(<<nullopt, nullopt>>)

C10_UnmatchedIsDropped ==
    [][ /\ \A v \in DOMAIN not_finished' :
              /\ \A i \in DOMAIN err' : err'[i] # not_finished'[v].line_desc
              /\ (line_no' # line_no /\ not_finished'[v].line_desc[1] = line_no')
                    => TotalsUnchanged
        /\ pc' = "done" => /\ TotalsUnchanged
                           /\ not_finished' = not_finished
                           /\ err' = err ]_vars

\* input has ended with an unmatched pending entry and an earlier diagnostic
C10_Witness ==
    /\ pc = "done"
    /\ not_finished # EmptyMap
    /\ err # <<>>

\* the line has the shape of a crossing record: three words, a plate, a road
\* and a marker
MatchesRecord(str) ==
    LET args == split_args(str)
    IN  /\ Len(args) = 3
        /\ parse_vehicle(args[1]) # nullopt
        /\ parse_road(args[2]) # nullopt
        /\ MatchesDistance(args[3])

record_shaped == [l \in Lines |-> MatchesRecord(l)]

LedgerUnchanged ==
    /\ vehicles_data' = vehicles_data
    /\ roads_data' = roads_data
    /\ not_finished' = not_finished

C12_DumpsAgree == \A i, j \in DOMAIN dumps : dumps[i] = dumps[j]

\* two no-argument queries in a row have written a non-empty report
C12_Witness ==
    /\ Len(dumps) >= 2
    /\ dumps[1] # <<>>
    /\ AfterQueryAll

AfterQueryArg ==
    /\ line_no >= 1
    /\ line # <<>>
    /\ cmd_of[line] # nullopt
    /\ cmd_of[line][1] # <<nullopt, nullopt>>

\* the road and the vehicle the query read last resolves to
query_road == cmd_of[line][1][1]

query_vehicle == cmd_of[line][1][2]

\* C14 as claimed: no command argument is accepted both as a road and as a
\* plate, so a query never resolves to both a road and a vehicle.
C14_Exclusive == AfterQueryArg => ~(query_road # nullopt /\ query_vehicle # nullopt)

\* C14 as amended: a command argument is accepted both as a road and as a
\* plate exactly when it is a road with a number of two or three digits
\* (10..999); a road with a one-digit number is no plate.
C14_OverlapIsLongRoads ==
    AfterQueryArg =>
        /\ (query_road # nullopt /\ query_vehicle # nullopt)
              <=> (query_road # nullopt /\ query_road[1][1] >= 10)
        /\ (query_road # nullopt /\ query_vehicle # nullopt)
              => (Len(line) \in 4..5 /\ query_vehicle[1] = SubSeq(line, 2, Len(line)))

\* the query ?S999 has resolved to the road S999 and to the vehicle S999
C14_Witness ==
    /\ AfterQueryArg
    /\ query_road = Some(<<999, "S">>)
    /\ query_vehicle = Some(<<"S", "9", "9", "9">>)

\* the integer part and the decimal digit of the marker of a record line
MarkerParts(str) ==
    LET marker == split_args(str)[3]
    IN  <<stoi(SubSeq(marker, 1, Len(marker) - 2)), DigitVal(marker[Len(marker)])>>

marker_parts == [l \in {x \in Lines : record_shaped[x]} |-> MarkerParts(l)]

\* C15: the Distance parsed from a marker is non-negative and equals
\* 10 * integer part + decimal digit, and every total is non-negative.
C15_DistancesExact ==
    /\ \A v \in DOMAIN not_finished :
          LET parts == marker_parts[not_finished[v].line_desc[2]]
              d == not_finished[v].distance
          IN  d >= 0 /\ d \div 10 = parts[1] /\ d % 10 = parts[2]
    /\ \A r \in DOMAIN roads_data : roads_data[r] >= 0
    /\ \A v \in DOMAIN vehicles_data :
          \A t \in DOMAIN vehicles_data[v] : vehicles_data[v][t] >= 0

\* the lines of the output that report a vehicle, and those that report a road
VehicleRows == {i \in DOMAIN out : out[i][1] = "vehicle"}

RoadRows == {i \in DOMAIN out : out[i][1] = "road"}

\* C16: a query with an argument writes the totals of the vehicle it
\* resolves to, if it resolves to one and the vehicle is present, and then the
\* total of the road it resolves to, if it resolves to one and the road is
\* present, each whether or not the other is written, and nothing else.
C16_BothSections ==
    AfterQueryArg =>
        /\ Cardinality(VehicleRows)
              = IF query_vehicle # nullopt /\ query_vehicle[1] \in DOMAIN vehicles_data
                THEN 1 ELSE 0
        /\ Cardinality(RoadRows)
              = IF query_road # nullopt /\ query_road[1] \in DOMAIN roads_data
                THEN 1 ELSE 0
        /\ Len(out) = Cardinality(VehicleRows) + Cardinality(RoadRows)
        /\ \A i \in VehicleRows :
              /\ out[i][2] = query_vehicle[1]
              /\ Len(out[i][3]) = Cardinality(DOMAIN vehicles_data[out[i][2]])
              /\ \A j \in DOMAIN out[i][3] :
                    /\ out[i][3][j][1] \in DOMAIN vehicles_data[out[i][2]]
                    /\ out[i][3][j][2]
                          = printable_distance_t(vehicles_data[out[i][2]][out[i][3][j][1]])
              /\ \A j \in RoadRows : i < j
        /\ \A i \in RoadRows :
              /\ out[i][2] = query_road[1]
              /\ out[i][3] = printable_distance_t(roads_data[out[i][2]])

\* the query ?A12 has reported the vehicle A12 and the road A12
C16_Witness ==
    /\ AfterQueryArg
    /\ query_road # nullopt /\ query_vehicle # nullopt
    /\ Len(out) = 2
    /\ out[1][1] = "vehicle" /\ out[2][1] = "road"
    /\ out[1][3] # <<>>

\* C17: a road has an entry in RoadTotals exactly when a segment has been
\* closed on it, and a vehicle has an entry for a road type in RoadTypeTotals
\* exactly when it has closed a segment on a road of that type; a segment of
\* length 0 counts, an opening or conflicting crossing creates no entry.
C17_EntriesAreClosedSegments ==
    /\ DOMAIN roads_data = {s.road : s \in closed}
    /\ DOMAIN vehicles_data = {s.vehicle : s \in closed}
    /\ \A v \in DOMAIN vehicles_data :
          DOMAIN vehicles_data[v] = {s.road[2] : s \in {c \in closed : c.vehicle = v}}

\* a segment of length 0 has created an entry with total 0, and a vehicle
\* is pending after a conflicting crossing on a road without entry
C17_Witness ==
    /\ \E s \in closed : roads_data[s.road] = 0 /\ vehicles_data[s.vehicle][s.road[2]] = 0
    /\ \E v \in DOMAIN not_finished :
          /\ last_crossing[v] = "conflicting"
          /\ not_finished[v].road \notin DOMAIN roads_data
          /\ v \notin DOMAIN vehicles_data

\* the totals of RoadTotals for the roads of type t, in key order, and the
\* totals of RoadTypeTotals for type t, in key order
RoadValues(t) ==
    LET keys == RoadKeys({r \in DOMAIN roads_data : r[2] = t})
    IN  [i \in DOMAIN keys |-> roads_data[keys[i]]]

VehicleValues(t) ==
    LET keys == VehicleKeys({v \in DOMAIN vehicles_data : t \in DOMAIN vehicles_data[v]})
    IN  [i \in DOMAIN keys |-> vehicles_data[keys[i]][t]]

\* the sum of a sequence of ints as an integer, written <<hi, lo>> for
\* hi * 65536 + lo with lo in 0..65535, so that no intermediate value
\* leaves the range of the model checker's integers
RECURSIVE SumHi(_)
SumHi(values) ==
    IF values = <<>> THEN 0 ELSE (values[1] \div 65536) + SumHi(Tail(values))

RECURSIVE SumLo(_)
SumLo(values) ==
    IF values = <<>> THEN 0 ELSE (values[1] % 65536) + SumLo(Tail(values))

ExactTotal(values) ==
    <<SumHi(values) + (SumLo(values) \div 65536), SumLo(values) % 65536>>

\* C18: for each road type, the sum of RoadTotals over the roads of the type
\* equals the sum of RoadTypeTotals over the vehicles.
C18_TablesAgree ==
    \A t \in {"A", "S"} : ExactTotal(RoadValues(t)) = ExactTotal(VehicleValues(t))

\* the numbers of the lines the diagnostics written so far refer to
ReportedLines == {err[i][1] : i \in DOMAIN err}

\* no line is reported twice, no line of a closed segment is reported, and
\* no line held in a pending entry has been reported
ReportedOnce ==
    /\ \A i, j \in DOMAIN err : i # j => err[i][1] # err[j][1]
    /\ \A i \in DOMAIN err : err[i][1] \in 1..line_no
    /\ \A s \in closed : s.first \notin ReportedLines /\ s.last \notin ReportedLines
    /\ \A v \in DOMAIN not_finished : not_finished[v].line_desc[1] \notin ReportedLines

\* the step reports the malformed line it reads, which is not stored
ReportsMalformed ==
    /\ line_no' = line_no + 1
    /\ cmd_of[line'] = nullopt /\ info_of[line'] = nullopt
    /\ err' = Append(err, line_desc_t(line_no', line'))
    /\ not_finished' = not_finished

\* the step reports the line of the pending entry that the crossing it reads
\* supersedes: same vehicle, different road
ReportsSuperseded ==
    /\ CrossingStep
    /\ CallVehicle \in DOMAIN not_finished
    /\ not_finished[CallVehicle].road # CallRoad
    /\ err' = Append(err, not_finished[CallVehicle].line_desc)
    /\ not_finished'[CallVehicle].line_desc = CallLine

\* C19: no input line is referenced by more than one diagnostic: a step
\* writes at most one diagnostic, for the malformed line it reads or for the
\* crossing record whose pending entry it supersedes, and the lines of a
\* segment closed by a match are never reported.
C19_ReportedAtMostOnce ==
    [][ /\ ReportedOnce'
        /\ err' # err => (ReportsMalformed \/ ReportsSuperseded) ]_vars

\* a malformed line and a superseded crossing record have been reported,
\* and a segment has been closed
C19_Witness ==
    /\ closed # {}
    /\ \E i, j \in DOMAIN err :
          /\ cmd_of[err[i][2]] = nullopt /\ info_of[err[i][2]] = nullopt
          /\ info_of[err[j][2]] # nullopt

\* key k has the same entry, or no entry, in the maps m and n
SameAt(m, n, k) == (k \in DOMAIN m <=> k \in DOMAIN n) /\ (k \in DOMAIN m => m[k] = n[k])

\* a closing call adds the distance between the marker of the call and the
\* marker of the line that opened the segment, in the arithmetic of int
AddsOwnSegment ==
    LET opened == info_of[not_finished[CallVehicle].line_desc[2]][1]
        amount == Abs32(WrapSub(CallDistance, opened[3]))
    IN  /\ opened[1] = CallVehicle /\ opened[2] = CallRoad
        /\ WrapSub(roads_data'[CallRoad], MapAt(roads_data, CallRoad)) = amount
        /\ WrapSub(vehicles_data'[CallVehicle][CallRoad[2]],
                   MapAt(MapAtMap(vehicles_data, CallVehicle), CallRoad[2])) = amount

\* C20: RecordCrossing(v, r, d, line) leaves the pending entry and the
\* RoadTypeTotals entries of every other vehicle, RoadTotals of every other
\* road and RoadTypeTotals[v] of the other road type unchanged, and the
\* amount a closing call adds for v's segment is that of v's own two
\* records, whatever was read between them.
C20_VehiclesIndependent ==
    [][ CrossingStep
        => /\ \A w \in (DOMAIN not_finished \cup DOMAIN not_finished') \ {CallVehicle} :
                 SameAt(not_finished, not_finished', w)
           /\ \A w \in (DOMAIN vehicles_data \cup DOMAIN vehicles_data') \ {CallVehicle} :
                 SameAt(vehicles_data, vehicles_data', w)
           /\ \A r \in (DOMAIN roads_data \cup DOMAIN roads_data') \ {CallRoad} :
                 SameAt(roads_data, roads_data', r)
           /\ \A t \in {"A", "S"} \ {CallRoad[2]} :
                 SameAt(MapAtMap(vehicles_data, CallVehicle),
                        MapAtMap(vehicles_data', CallVehicle), t)
           /\ ClosingStep => AddsOwnSegment ]_vars

\* a vehicle has closed a segment of 1,5 that it opened before the pending
\* crossing of another vehicle on the same road
C20_Witness ==
    \E s \in closed :
        /\ s.last = line_no
        /\ roads_data[s.road] = 15
        /\ \E w \in DOMAIN not_finished :
              /\ w # s.vehicle
              /\ not_finished[w].road = s.road
              /\ s.first < not_finished[w].line_desc[1]
              /\ not_finished[w].line_desc[1] < s.last

====
